---- MODULE Spec2Model ----
(***************************************************************************)
(* Model of common/fileChunkReader.go (simpleFileChunkReader) of           *)
(* azure-storage-azcopy: chunk readers sharing one open file and one       *)
(* prefetched-byte tracker; and of common/multiSizeSlicePool.go            *)
(* (multiSizeSlicePool): a pool of byte slices shared by workers.          *)
(*                                                                         *)
(* Every method is a pure operator over the receiver's fields, written in  *)
(* the order of the method's statements; the actions Call* apply a method  *)
(* to one reader and record what the call returned in `last`, the actions  *)
(* of the pool apply a method of the pool and record it in `poolLast`.     *)
(***************************************************************************)
EXTENDS Integers, Sequences, FiniteSets

---------------------------------------------------------------------------
(* Bounds of the model *)

\* number of bytes in the shared file
FileSize == 3
\* largest chunk length a reader is constructed with
MaxLength == 2
\* width of the model's int64 (two's complement, IntBits bits)
IntBits == 4
\* positioned reads that may fail in one behaviour
MaxFailedReads == 1
\* width of the model's uint32 (UintBits bits); int is wider (a 64-bit build)
UintBits == 10
\* slices one simpleSlicePool's channel holds: newSimpleSlicePool(1000), scaled
SlotCapacity == 2

\* the chunk readers, all on the same file and the same tracker
Readers == {1, 2}

\* the workers (goroutines) sharing one slice pool
Workers == {1, 2, 3}

---------------------------------------------------------------------------
(* int64 arithmetic *)

Pow2(k) == 2 ^ k
MinInt64 == -Pow2(IntBits - 1)
MaxInt64 == Pow2(IntBits - 1) - 1

\* Go's wrapping signed arithmetic: the value of x in two's complement
Wrap64(x) == ((x - MinInt64) % Pow2(IntBits)) + MinInt64

Min(a, b) == IF a < b THEN a ELSE b
Max(a, b) == IF a > b THEN a ELSE b

---------------------------------------------------------------------------
(* Values the methods return *)

NoErr == "nil"
EOF == "io.EOF"
ErrIO == "read error"
ErrClosed == "os.ErrClosed"
ErrShortRead == "bytes read not equal to expected length"
ErrSeekBeforeStart == "cannot seek to before beginning"

\* whence, as in package io
SeekStart == 0
SeekCurrent == 1
SeekEnd == 2
\* whence values that are none of the three modes
OtherWhences == {3}

\* the (offset, whence) the model calls Seek with: in each mode both ends of
\* int64 and every offset that, from some position of some chunk, asks for
\* a position from one before the start to one past the end
SeekArgs ==
    ( ({MinInt64, MaxInt64} \cup (-1)..(MaxLength + 1)) \X {SeekStart, SeekEnd} )
    \cup
    ( ({MinInt64, MaxInt64} \cup (-(MaxLength + 1))..(MaxLength + 1)) \X {SeekCurrent} )
    \cup
    ( {0} \X OtherWhences )

\* the len(p) the model calls Read with: empty, shorter than, as long as and
\* longer than a chunk
ReadSizes == 0..(MaxLength + 1)

\* a nil slice; a buffer made by Prefetch has length > 0 and is never empty
NilBuffer == << >>

---------------------------------------------------------------------------
(* The file *)

\* byte i of the file (1-based); no byte of the file is 0, the value make()
\* fills a fresh buffer with
FileContent == [i \in 1..FileSize |-> i]

\* the file's bytes in [off, off+n)
FileBytes(off, n) == [i \in 1..n |-> FileContent[off + i]]

\* a buffer of len bytes made by make() after n bytes of the file at off were
\* read into it
Filled(len, off, n) == [i \in 1..len |-> IF i <= n THEN FileContent[off + i] ELSE 0]

VARIABLES
    file,                   \* the shared *os.File: [closed]
    offsetInFile,           \* per reader
    length,                 \* per reader
    positionInChunk,        \* per reader
    buffer,                 \* per reader: NilBuffer or the prefetched bytes
    prefetchedByteTracker,  \* the shared counter's value
    last,                   \* the last call and what it returned
    failedReads,            \* positioned reads that have failed so far
    pc,                     \* per reader: where its driver is (SpecRun)
    out                     \* per reader: the bytes its driver has read (SpecRun)

VARIABLES
    maxSliceLength,         \* what the pool was constructed with (0: no pool)
    poolsBySize,            \* per slot index: the slices in that pool's channel
    held,                   \* per worker: the slice it has and has not given back
    wpc,                    \* per worker: "working", "returned" (SpecPoolRun) or "finished"
    panicked,               \* NoPanic, or the panic that ended the process
    poolLast                \* the last call on the pool and what it returned

readerVars == << file, offsetInFile, length, positionInChunk, buffer,
                 prefetchedByteTracker, last, failedReads, pc, out >>

poolVars == << maxSliceLength, poolsBySize, held, wpc, panicked, poolLast >>

vars == << readerVars, poolVars >>

\* bytes of the file available at off
Available(off) == Max(0, FileSize - off)

\* file.ReadAt(b, off) with len(b) = len: the outcomes (n, err, b afterwards).
\* pread neither reads nor moves a file cursor.  n < len comes with an error:
\* io.EOF at the end of the file, or the error of a failed read after n bytes.
ReadAt(f, len, off) ==
    IF f.closed
    THEN { [n |-> 0, err |-> ErrClosed, bytes |-> Filled(len, off, 0)] }
    ELSE { [n |-> k, err |-> ErrIO, bytes |-> Filled(len, off, k)] :
               k \in 0..(Min(len, Available(off) + 1) - 1) }
         \cup
         ( IF off + len <= FileSize
           THEN { [n |-> len, err |-> NoErr, bytes |-> Filled(len, off, len)] }
           ELSE { [n |-> Available(off), err |-> EOF,
                   bytes |-> Filled(len, off, Available(off))] } )

\* SharedCounter.Add
Add(counter, delta) == counter + delta

---------------------------------------------------------------------------
(* simpleFileChunkReader *)

\* the fields of reader r
Reader(r) ==
    [ offsetInFile |-> offsetInFile[r], length |-> length[r],
      positionInChunk |-> positionInChunk[r], buffer |-> buffer[r] ]

\* NewSimpleFileChunkReader(file, offset, length, tracker): panics on
\* length <= 0, so the readers that exist have length > 0
NewSimpleFileChunkReader(offset, len) ==
    [ offsetInFile |-> offset, length |-> len,
      positionInChunk |-> 0, buffer |-> NilBuffer ]

\* mutant of AlreadyPrefetched: the check for a held buffer is lost
AlreadyPrefetched_Never(cr) == FALSE

\* "if cr.buffer != nil": already prefetched
AlreadyPrefetched(cr) == cr.buffer # NilBuffer

\* Prefetch(), given the outcome io of the ReadAt it may make.
\* Result: the buffer and the tracker afterwards, the error returned, and
\* whether ReadAt was called.
Prefetch(cr, tracker, io) ==
    IF AlreadyPrefetched(cr)
    THEN [ buffer |-> cr.buffer, tracker |-> tracker, err |-> NoErr, didIO |-> FALSE ]
    ELSE \* cr.buffer = make([]byte, cr.length); ReadAt(cr.buffer, cr.offsetInFile)
         IF io.err # NoErr
         THEN [ buffer |-> io.bytes, tracker |-> tracker, err |-> io.err, didIO |-> TRUE ]
         ELSE IF io.n # cr.length
         THEN [ buffer |-> io.bytes, tracker |-> tracker, err |-> ErrShortRead,
                didIO |-> TRUE ]
         ELSE [ buffer |-> io.bytes, tracker |-> Add(tracker, io.n), err |-> NoErr,
                didIO |-> TRUE ]

\* mutant of discardBuffer: the nil check is lost
discardBuffer_Unchecked(cr, tracker) ==
    [ buffer |-> NilBuffer, tracker |-> Add(tracker, -cr.length) ]

\* discardBuffer(): the buffer and the tracker afterwards
discardBuffer(cr, tracker) ==
    IF cr.buffer = NilBuffer
    THEN [ buffer |-> cr.buffer, tracker |-> tracker ]
    ELSE [ buffer |-> NilBuffer, tracker |-> Add(tracker, -cr.length) ]

\* the position Seek's switch computes, before int64 wraps it
UnwrappedPosition(cr, offset, whence) ==
    CASE whence = SeekStart   -> offset
      [] whence = SeekCurrent -> cr.positionInChunk + offset
      [] whence = SeekEnd     -> cr.length - offset
      [] OTHER                -> cr.positionInChunk

\* newPosition after the switch on whence
NewPosition(cr, offset, whence) == Wrap64(UnwrappedPosition(cr, offset, whence))

\* mutant of BeforeBeginning: off by one
BeforeBeginning_OffByOne(newPosition) == newPosition < -1

\* "if newPosition < 0"
BeforeBeginning(newPosition) == newPosition < 0

\* mutant of Clamp: no clamping
Clamp_None(cr, newPosition) == newPosition

\* "if newPosition > cr.length { newPosition = cr.length }"
Clamp(cr, newPosition) == IF newPosition > cr.length THEN cr.length ELSE newPosition

\* Seek(offset, whence): the position afterwards, the (int64, error) returned,
\* and whether the int64 arithmetic wrapped around
Seek(cr, offset, whence) ==
    LET newPosition == NewPosition(cr, offset, whence)
        wrapped == UnwrappedPosition(cr, offset, whence) # newPosition
    IN  IF BeforeBeginning(newPosition)
        THEN [ positionInChunk |-> cr.positionInChunk, n |-> 0,
               err |-> ErrSeekBeforeStart, wrapped |-> wrapped ]
        ELSE [ positionInChunk |-> Clamp(cr, newPosition),
               n |-> Clamp(cr, newPosition), err |-> NoErr, wrapped |-> wrapped ]

\* mutant of AtEOF: > for >=
AtEOF_PastEndOnly(cr) == cr.positionInChunk > cr.length

\* the EOF check at the head of Read
AtEOF(cr) == cr.positionInChunk >= cr.length

\* mutant of Copy: len(p) is ignored
Copy_IgnoringLenP(plen, src) == src

\* copy(p, src) with len(p) = plen: the bytes copied
Copy(plen, src) == SubSeq(src, 1, Min(plen, Len(src)))

\* mutant of Unread: the cursor is ignored
Unread_FromStart(buf, position) == buf

\* cr.buffer[cr.positionInChunk:]
Unread(buf, position) == SubSeq(buf, position + 1, Len(buf))

\* Read(p) with len(p) = plen, given the outcome io of the ReadAt its Prefetch
\* may make.  Result: the fields and the tracker afterwards, the (n, err)
\* returned, the bytes copied into p, and whether ReadAt was called.
Read(cr, tracker, plen, io) ==
    IF AtEOF(cr)
    THEN [ positionInChunk |-> cr.positionInChunk, buffer |-> cr.buffer,
           tracker |-> tracker, n |-> 0, err |-> EOF, data |-> << >>,
           didIO |-> FALSE ]
    ELSE LET pf == Prefetch(cr, tracker, io) IN
         IF pf.err # NoErr
         THEN [ positionInChunk |-> cr.positionInChunk, buffer |-> pf.buffer,
                tracker |-> pf.tracker, n |-> 0, err |-> pf.err, data |-> << >>,
                didIO |-> pf.didIO ]
         ELSE LET copied == Copy(plen, Unread(pf.buffer, cr.positionInChunk))
                  bytesCopied == Len(copied)
                  position == cr.positionInChunk + bytesCopied
                  isEof == position >= cr.length
                  dis == discardBuffer([cr EXCEPT !.buffer = pf.buffer], pf.tracker)
              IN  IF isEof
                  THEN [ positionInChunk |-> position, buffer |-> dis.buffer,
                         tracker |-> dis.tracker, n |-> bytesCopied, err |-> EOF,
                         data |-> copied, didIO |-> pf.didIO ]
                  ELSE [ positionInChunk |-> position, buffer |-> pf.buffer,
                         tracker |-> pf.tracker, n |-> bytesCopied, err |-> NoErr,
                         data |-> copied, didIO |-> pf.didIO ]

\* Close(): the file, the buffer and the tracker afterwards, and the error
Close(cr, tracker, f) ==
    LET dis == discardBuffer(cr, tracker)
    IN  [ file |-> f, buffer |-> dis.buffer, tracker |-> dis.tracker, err |-> NoErr ]

---------------------------------------------------------------------------
(* The calls *)

\* what `last` records of a call: the method, the reader, the values returned
\* (n, err; data: the bytes Read copied into p), whether the call made a
\* positioned read, and whether Seek's arithmetic wrapped around
Returned(op, r, n, err, didIO, data, wrapped) ==
    [ op |-> op, r |-> r, n |-> n, err |-> err, didIO |-> didIO, data |-> data,
      wrapped |-> wrapped ]

\* the outcomes a positioned read of reader r may have now
IoOutcomes(r) ==
    { io \in ReadAt(file, length[r], offsetInFile[r]) :
          io.err = NoErr \/ failedReads < MaxFailedReads }

Failed(didIO, io) == IF didIO /\ io.err # NoErr THEN 1 ELSE 0

CallPrefetch(r) ==
    \E io \in IoOutcomes(r) :
        LET res == Prefetch(Reader(r), prefetchedByteTracker, io) IN
        /\ buffer' = [buffer EXCEPT ![r] = res.buffer]
        /\ prefetchedByteTracker' = res.tracker
        /\ failedReads' = failedReads + Failed(res.didIO, io)
        /\ last' = Returned("Prefetch", r, 0, res.err, res.didIO, << >>, FALSE)
        /\ UNCHANGED << file, offsetInFile, length, positionInChunk, poolVars >>

CallRead(r, plen) ==
    \E io \in IoOutcomes(r) :
        LET res == Read(Reader(r), prefetchedByteTracker, plen, io) IN
        /\ positionInChunk' = [positionInChunk EXCEPT ![r] = res.positionInChunk]
        /\ buffer' = [buffer EXCEPT ![r] = res.buffer]
        /\ prefetchedByteTracker' = res.tracker
        /\ failedReads' = failedReads + Failed(res.didIO, io)
        /\ last' = Returned("Read", r, res.n, res.err, res.didIO, res.data, FALSE)
        /\ UNCHANGED << file, offsetInFile, length, poolVars >>

CallSeek(r, offset, whence) ==
    LET res == Seek(Reader(r), offset, whence) IN
    /\ positionInChunk' = [positionInChunk EXCEPT ![r] = res.positionInChunk]
    /\ last' = Returned("Seek", r, res.n, res.err, FALSE, << >>, res.wrapped)
    /\ UNCHANGED << file, offsetInFile, length, buffer, prefetchedByteTracker,
                    failedReads, poolVars >>

CallClose(r) ==
    LET res == Close(Reader(r), prefetchedByteTracker, file) IN
    /\ file' = res.file
    /\ buffer' = [buffer EXCEPT ![r] = res.buffer]
    /\ prefetchedByteTracker' = res.tracker
    /\ last' = Returned("Close", r, 0, res.err, FALSE, << >>, FALSE)
    /\ UNCHANGED << offsetInFile, length, positionInChunk, failedReads, poolVars >>

---------------------------------------------------------------------------
(* The slice pool: uint32 arithmetic and getSlotInfo *)

\* the largest uint32
MaxUint32 == Pow2(UintBits) - 1

\* uint32(n) of an int n >= 0: the low UintBits bits
Uint32(n) == n % Pow2(UintBits)

\* bits.Len32: the number of bits needed to represent x
RECURSIVE Len32(_)
Len32(x) == IF x = 0 THEN 0 ELSE 1 + Len32(x \div 2)

\* bits.LeadingZeros32
LeadingZeros32(x) == UintBits - Len32(x)

\* bits.OnesCount32
RECURSIVE OnesCount32(_)
OnesCount32(x) == IF x = 0 THEN 0 ELSE (x % 2) + OnesCount32(x \div 2)

\* the panics of the pool
NoPanic == ""
PanicZeroLength == "exact slice length must be greater than zero"
PanicIndexOutOfRange == "index out of range"
PanicSliceBounds == "slice bounds out of range"

\* isExactPowerOfTwo
IsExactPowerOfTwo_Never(exactSliceLength) == FALSE
IsExactPowerOfTwo(exactSliceLength) == OnesCount32(exactSliceLength) = 1

\* getSlotInfo(exactSliceLength): the slot of that length and the largest
\* capacity of the slot, or the panic
getSlotInfo(exactSliceLength) ==
    IF exactSliceLength <= 0
    THEN [ slotIndex |-> 0, maxCapInSlot |-> 0, panic |-> PanicZeroLength ]
    ELSE LET rawSlotIndex == (UintBits - 1) - LeadingZeros32(exactSliceLength)
             slotIndex == IF IsExactPowerOfTwo(exactSliceLength)
                          THEN rawSlotIndex
                          ELSE rawSlotIndex + 1
         IN  [ slotIndex |-> slotIndex, maxCapInSlot |-> Pow2(slotIndex),
               panic |-> NoPanic ]

---------------------------------------------------------------------------
(* The slice pool: simpleSlicePool and multiSizeSlicePool *)

\* a []byte: the identity of its backing array, its capacity and its length
Slice(id, cap, len) == [ id |-> id, cap |-> cap, len |-> len ]

\* the nil slice
NilSlice == Slice(0, 0, 0)

\* newSimpleSlicePool: an empty channel (of capacity SlotCapacity)
newSimpleSlicePool == << >>

\* simpleSlicePool.Get on channel c: a receive that does not block
Get_KeepsItem(c) ==
    IF Len(c) > 0 THEN [ item |-> Head(c), c |-> c ]
                  ELSE [ item |-> NilSlice, c |-> c ]
Get(c) ==
    IF Len(c) > 0 THEN [ item |-> Head(c), c |-> Tail(c) ]
                  ELSE [ item |-> NilSlice, c |-> c ]

\* simpleSlicePool.Put on channel c: a send that does not block; b is thrown
\* away if the channel is full
Put_Unbounded(c, b) == [ c |-> Append(c, b), stored |-> TRUE ]
Put(c, b) ==
    IF Len(c) < SlotCapacity THEN [ c |-> Append(c, b), stored |-> TRUE ]
                             ELSE [ c |-> c, stored |-> FALSE ]

\* NewMultiSizeSlicePool(limit): one simpleSlicePool per slot index up to the
\* slot of limit
NewMultiSizeSlicePool(limit) ==
    LET maxSlotIndex == getSlotInfo(limit).slotIndex IN
    [ i \in 0..maxSlotIndex |-> newSimpleSlicePool ]

\* typedSlice[0:desiredSize]
Reslice_ToCap(typedSlice, desiredSize) ==
    Slice(typedSlice.id, typedSlice.cap, typedSlice.cap)
Reslice(typedSlice, desiredSize) ==
    Slice(typedSlice.id, typedSlice.cap, desiredSize)

\* what a method of the pool returns: the channels after the call, the slot
\* it computed, the slice it returned, whether that slice came from
\* (RentSlice) or went into (ReturnSlice) a channel, and the panic if it
\* panicked
PoolResult(pools, info, slice, pooled, panic) ==
    [ poolsBySize |-> pools, slotIndex |-> info.slotIndex,
      maxCapInSlot |-> info.maxCapInSlot, slice |-> slice, pooled |-> pooled,
      panic |-> panic ]

\* mp.RentSlice(desiredSize); id names the backing array make() would allocate
RentSlice(mp, desiredSize, id) ==
    LET info == getSlotInfo(desiredSize) IN
    IF info.panic # NoPanic
    THEN PoolResult(mp, info, NilSlice, FALSE, info.panic)
    ELSE IF info.slotIndex \notin DOMAIN mp
    THEN PoolResult(mp, info, NilSlice, FALSE, PanicIndexOutOfRange)
    ELSE LET got == Get(mp[info.slotIndex])
             after == [mp EXCEPT ![info.slotIndex] = got.c]
         IN  IF got.item # NilSlice
             THEN IF desiredSize > got.item.cap
                  THEN PoolResult(after, info, NilSlice, TRUE,
                                  PanicSliceBounds)
                  ELSE PoolResult(after, info,
                                  Reslice(got.item, desiredSize), TRUE, NoPanic)
             ELSE PoolResult(mp, info,
                             Slice(id, info.maxCapInSlot, desiredSize), FALSE,
                             NoPanic)

\* mp.ReturnSlice(slice)
ReturnSlice(mp, slice) ==
    LET info == getSlotInfo(Uint32(slice.cap)) IN
    IF info.panic # NoPanic
    THEN PoolResult(mp, info, slice, FALSE, info.panic)
    ELSE IF info.slotIndex \notin DOMAIN mp
    THEN PoolResult(mp, info, slice, FALSE, PanicIndexOutOfRange)
    ELSE LET put == Put(mp[info.slotIndex], slice) IN
         PoolResult([mp EXCEPT ![info.slotIndex] = put.c], info, slice,
                    put.stored, NoPanic)

\* what `poolLast` records of a call: the method, the worker, the size or the
\* slice it was given, and what the call returned
Called(op, w, size, given, res) ==
    [ op |-> op, w |-> w, size |-> size, given |-> given,
      slotIndex |-> res.slotIndex, maxCapInSlot |-> res.maxCapInSlot,
      slice |-> res.slice, pooled |-> res.pooled, panic |-> res.panic ]

\* no pool has been constructed and no worker runs
NoPool ==
    /\ maxSliceLength = 0
    /\ poolsBySize = << >>
    /\ held = [w \in Workers |-> NilSlice]
    /\ wpc = [w \in Workers |-> "working"]
    /\ panicked = NoPanic
    /\ poolLast = Called("None", 0, 0, NilSlice,
                         PoolResult(<< >>, getSlotInfo(0), NilSlice, FALSE, NoPanic))

---------------------------------------------------------------------------
(* Spec: any calls, in any order, on any reader *)

\* the chunk lengths a reader may be constructed with
ChunkLengths == 1..MaxLength

\* the offset reader r is constructed with: the readers start one byte apart,
\* so that chunks longer than a byte overlap, and the longest chunk of the
\* last reader passes the end of the file
ChunkOffset(r) == r

\* the readers as constructed with the chunk lengths len
Constructed(len) ==
    /\ file = [closed |-> FALSE]
    /\ offsetInFile = [r \in Readers |->
           NewSimpleFileChunkReader(ChunkOffset(r), len[r]).offsetInFile]
    /\ length = [r \in Readers |->
           NewSimpleFileChunkReader(ChunkOffset(r), len[r]).length]
    /\ positionInChunk = [r \in Readers |->
           NewSimpleFileChunkReader(ChunkOffset(r), len[r]).positionInChunk]
    /\ buffer = [r \in Readers |->
           NewSimpleFileChunkReader(ChunkOffset(r), len[r]).buffer]
    /\ prefetchedByteTracker = 0
    /\ last = Returned("New", 0, 0, NoErr, FALSE, << >>, FALSE)
    /\ failedReads = 0
    /\ pc = [r \in Readers |-> "new"]
    /\ out = [r \in Readers |-> << >>]

Init ==
    /\ \E len \in [Readers -> ChunkLengths] : Constructed(len)
    /\ NoPool

PrefetchStep(r) == CallPrefetch(r) /\ UNCHANGED << pc, out >>
ReadStep(r, plen) == CallRead(r, plen) /\ UNCHANGED << pc, out >>
SeekStep(r, offset, whence) == CallSeek(r, offset, whence) /\ UNCHANGED << pc, out >>
CloseStep(r) == CallClose(r) /\ UNCHANGED << pc, out >>

Next ==
    \E r \in Readers :
        \/ PrefetchStep(r)
        \/ \E plen \in ReadSizes : ReadStep(r, plen)
        \/ \E args \in SeekArgs : SeekStep(r, args[1], args[2])
        \/ CloseStep(r)

Spec == Init /\ [][Next]_vars

---------------------------------------------------------------------------
(* SpecRun: each reader is driven by its own worker, which prefetches it,   *)
(* reads it to exhaustion and closes it; the workers' calls interleave     *)

\* what the worker does after a call that returned err
AfterPrefetch(err) == IF err = NoErr THEN "reading" ELSE "failed"
AfterRead(err) ==
    IF err = EOF THEN "done" ELSE IF err = NoErr THEN "reading" ELSE "failed"
AfterClose(was) == IF was = "done" THEN "closed" ELSE "abandoned"

RunPrefetch(r) ==
    /\ pc[r] = "new"
    /\ CallPrefetch(r)
    /\ pc' = [pc EXCEPT ![r] = AfterPrefetch(last'.err)]
    /\ UNCHANGED out

RunRead(r, plen) ==
    /\ pc[r] = "reading"
    /\ CallRead(r, plen)
    /\ out' = [out EXCEPT ![r] = @ \o last'.data]
    /\ pc' = [pc EXCEPT ![r] = AfterRead(last'.err)]

RunClose(r) ==
    /\ pc[r] \in {"done", "failed"}
    /\ CallClose(r)
    /\ pc' = [pc EXCEPT ![r] = AfterClose(pc[r])]
    /\ UNCHANGED out

NextRun ==
    \E r \in Readers :
        \/ RunPrefetch(r)
        \/ \E plen \in ReadSizes \ {0} : RunRead(r, plen)
        \/ RunClose(r)

SpecRun == Init /\ [][NextRun]_vars

---------------------------------------------------------------------------
(* SpecSlot: getSlotInfo applied to every uint32 *)

\* the readers play no part in the specifications of the pool
ReadersIdle == Constructed([r \in Readers |-> MaxLength])

CallGetSlotInfo(size) ==
    /\ panicked = NoPanic
    /\ LET info == getSlotInfo(size) IN
       /\ panicked' = info.panic
       /\ poolLast' = Called("getSlotInfo", 0, size, NilSlice,
                             PoolResult(poolsBySize, info, NilSlice, FALSE,
                                        info.panic))
    /\ UNCHANGED << maxSliceLength, poolsBySize, held, wpc, readerVars >>

InitSlot == ReadersIdle /\ NoPool

NextSlot == \E size \in 0..MaxUint32 : CallGetSlotInfo(size)

SpecSlot == InitSlot /\ [][NextSlot]_vars

---------------------------------------------------------------------------
(* SpecPool: workers renting slices of sizes within the pool's range and   *)
(* returning the slices they rented, in any interleaving                   *)

\* the first size whose slot's capacity does not fit in a uint32
HalfRange == Pow2(UintBits - 1)

\* the lengths a pool is constructed with
PoolLimits == {3, MaxUint32}

\* the sizes the workers ask for
RentSizes == {3, 4, HalfRange + 1}

\* the slices that exist: those a worker has and those in a channel
HeldSlices == { held[w] : w \in Workers } \ {NilSlice}
PooledSlices ==
    UNION { { poolsBySize[k][i] : i \in 1..Len(poolsBySize[k]) } :
            k \in DOMAIN poolsBySize }
LiveIds == { b.id : b \in HeldSlices \cup PooledSlices }

\* the backing array the next make() allocates: named by the least id that
\* no slice in existence has
NewId == CHOOSE i \in 1..(Cardinality(LiveIds) + 1) :
             /\ i \notin LiveIds
             /\ \A j \in 1..(i - 1) : j \in LiveIds

\* a panic ends the process: no worker takes another step
Running(w) == panicked = NoPanic /\ wpc[w] # "finished"

\* worker w, holding no slice, rents one
CallRentSlice(w, size) ==
    /\ Running(w)
    /\ held[w] = NilSlice
    /\ LET res == RentSlice(poolsBySize, size, NewId) IN
       /\ poolsBySize' = res.poolsBySize
       /\ held' = IF res.panic = NoPanic
                  THEN [held EXCEPT ![w] = res.slice]
                  ELSE held
       /\ panicked' = res.panic
       /\ poolLast' = Called("RentSlice", w, size, NilSlice, res)
    /\ UNCHANGED << maxSliceLength, readerVars >>

\* worker w gives slice to the pool
CallReturnSlice(w, slice) ==
    /\ Running(w)
    /\ LET res == ReturnSlice(poolsBySize, slice) IN
       /\ poolsBySize' = res.poolsBySize
       /\ held' = IF res.panic = NoPanic
                  THEN [held EXCEPT ![w] = NilSlice]
                  ELSE held
       /\ panicked' = res.panic
       /\ poolLast' = Called("ReturnSlice", w, 0, slice, res)
    /\ UNCHANGED << maxSliceLength, readerVars >>

\* worker w ends
CallFinish(w) ==
    /\ Running(w)
    /\ held[w] = NilSlice
    /\ wpc' = [wpc EXCEPT ![w] = "finished"]
    /\ poolLast' = Called("Finish", w, 0, NilSlice,
                          PoolResult(poolsBySize, getSlotInfo(0), NilSlice, FALSE,
                                     NoPanic))
    /\ UNCHANGED << maxSliceLength, poolsBySize, held, panicked, readerVars >>

WorkerRent(w, size) == CallRentSlice(w, size) /\ UNCHANGED wpc

\* a worker gives back the slice it rented
WorkerReturn(w) ==
    held[w] # NilSlice /\ CallReturnSlice(w, held[w]) /\ UNCHANGED wpc

\* a worker that has given back the slice it rented may end
WorkerFinish(w) == CallFinish(w)

\* the pool as NewMultiSizeSlicePool(limit) returns it, and workers that
\* have not called it yet
PoolConstructed(limit) ==
    /\ ReadersIdle
    /\ maxSliceLength = limit
    /\ poolsBySize = NewMultiSizeSlicePool(limit)
    /\ poolLast = Called("New", 0, limit, NilSlice,
                         PoolResult(NewMultiSizeSlicePool(limit),
                                    getSlotInfo(limit), NilSlice, FALSE, NoPanic))
    /\ held = [w \in Workers |-> NilSlice]
    /\ wpc = [w \in Workers |-> "working"]
    /\ panicked = NoPanic

InitPool == \E limit \in PoolLimits : PoolConstructed(limit)

NextPool ==
    \E w \in Workers :
        \/ \E size \in RentSizes \cap (1..maxSliceLength) : WorkerRent(w, size)
        \/ WorkerReturn(w)
        \/ WorkerFinish(w)

SpecPool == InitPool /\ [][NextPool]_vars

---------------------------------------------------------------------------
(* SpecPoolRun: each worker is a goroutine that rents one slice, gives it   *)
(* back and ends; the scheduler lets every goroutine that can run, run      *)

RunRent(w, size) ==
    /\ wpc[w] = "working"
    /\ CallRentSlice(w, size)
    /\ UNCHANGED wpc

RunReturn(w) ==
    /\ held[w] # NilSlice
    /\ CallReturnSlice(w, held[w])
    /\ wpc' = [wpc EXCEPT ![w] = IF panicked' = NoPanic THEN "returned" ELSE @]

RunFinish(w) == wpc[w] = "returned" /\ CallFinish(w)

RunStep(w) ==
    \/ \E size \in RentSizes \cap (1..maxSliceLength) : RunRent(w, size)
    \/ RunReturn(w)
    \/ RunFinish(w)

NextPoolRun == \E w \in Workers : RunStep(w)

SpecPoolRun ==
    InitPool /\ [][NextPoolRun]_vars /\ \A w \in Workers : WF_vars(RunStep(w))

---------------------------------------------------------------------------
(* SpecPoolAny: callers that do not keep to the pool's range: they rent     *)
(* sizes above maxSliceLength and hand ReturnSlice slices they made         *)

\* the lengths the pool is constructed with
SmallPoolLimits == {3}

\* the sizes the callers ask for: 3 is within the range of a pool constructed
\* with 3, 4 is above it and has the slot of 3, 5 is above it and has a slot
\* of its own
AnySizes == {3, 4, 5}

\* the capacities of the slices the callers make themselves
ForeignCaps == {0, 3, 5}

\* make([]byte, cap) by the caller; a nil slice has capacity 0
Foreign(cap) == IF cap = 0 THEN NilSlice ELSE Slice(NewId, cap, cap)

\* a worker holding no rented slice gives the pool a slice of its own
ForeignReturn(w, cap) ==
    /\ held[w] = NilSlice
    /\ CallReturnSlice(w, Foreign(cap))
    /\ UNCHANGED wpc

NextPoolAny ==
    \E w \in Workers :
        \/ \E size \in AnySizes : WorkerRent(w, size)
        \/ WorkerReturn(w)
        \/ \E cap \in ForeignCaps : ForeignReturn(w, cap)
        \/ WorkerFinish(w)

InitPoolAny == \E limit \in SmallPoolLimits : PoolConstructed(limit)

SpecPoolAny == InitPoolAny /\ [][NextPoolAny]_vars

---------------------------------------------------------------------------
(* Properties *)

RECURSIVE SumOfLengths(_)
\* the sum of length over the readers in S
SumOfLengths(S) ==
    IF S = {} THEN 0
    ELSE LET r == CHOOSE x \in S : TRUE IN length[r] + SumOfLengths(S \ {r})

\* the readers that hold a buffer
Holding == { r \in Readers : buffer[r] # NilBuffer }

\* the last call was method op on reader r
LastWas(op, r) == last.op = op /\ last.r = r

\* the whole range of reader r lies inside the file
InExtent(r) == offsetInFile[r] + length[r] <= FileSize

\* the calls of Seek in one of the three whence modes
SeekModeArgs == { args \in SeekArgs : args[2] \in {SeekStart, SeekCurrent, SeekEnd} }

\* C1: in every reachable state the tracker's value is its starting value (0)
\* plus the sum of length over exactly the readers that hold a buffer.
C1_ExactAccounting ==
    prefetchedByteTracker = 0 + SumOfLengths(Holding)

\* C2: a Prefetch that returns an error leaves its reader without a buffer and
\* leaves the tracker as it was.
C2_FailedPrefetchDiscards ==
    [][ \A r \in Readers :
            (last'.op = "Prefetch" /\ last'.r = r /\ last'.err # NoErr)
                => /\ buffer'[r] = NilBuffer
                   /\ prefetchedByteTracker' = prefetchedByteTracker ]_vars

\* C3: a reader inside the file's extent that is prefetched and then read with
\* non-empty read buffers has, while it is being read, received a proper prefix
\* of the file's bytes in [offset, offset+length) and, once it is done, exactly
\* those bytes; EOF comes with the final, non-empty read and with no read
\* before it, and no read of such a reader fails; whatever the other readers
\* do in between.
C3_ReadToExhaustion ==
    \A r \in Readers :
        InExtent(r) =>
            /\ pc[r] = "reading" =>
                   /\ Len(out[r]) < length[r]
                   /\ out[r] = FileBytes(offsetInFile[r], Len(out[r]))
            /\ pc[r] \in {"done", "closed"} =>
                   out[r] = FileBytes(offsetInFile[r], length[r])
            /\ (LastWas("Read", r) /\ pc[r] = "done") =>
                   /\ last.err = EOF
                   /\ last.n > 0
                   /\ last.data = SubSeq(out[r], Len(out[r]) - last.n + 1, Len(out[r]))
            /\ (LastWas("Read", r) /\ pc[r] = "reading") =>
                   /\ last.err = NoErr
                   /\ last.n > 0
            /\ LastWas("Read", r) => pc[r] # "failed"

\* C3 witness: two readers over overlapping ranges inside the file, one read to
\* exhaustion in more than one read while the other, prefetched, is yet to be
\* read
C3_Witness ==
    \E r, s \in Readers :
        /\ r # s /\ InExtent(r) /\ InExtent(s)
        /\ offsetInFile[s] < offsetInFile[r] + length[r]
        /\ offsetInFile[r] < offsetInFile[s] + length[s]
        /\ pc[r] = "done" /\ LastWas("Read", r) /\ last.n < length[r]
        /\ out[r] = FileBytes(offsetInFile[r], length[r])
        /\ pc[s] = "reading" /\ buffer[s] = FileBytes(offsetInFile[s], length[s])

\* what C4 says of a Read(p), len(p) = plen, on reader r from position
\* positionInChunk[r] < length[r]
ReadCopies(r, plen) ==
    LET count == Min(plen, length[r] - positionInChunk[r])
        afterPrefetch == IF buffer[r] = NilBuffer
                         THEN prefetchedByteTracker + length[r]
                         ELSE prefetchedByteTracker
    IN  /\ last'.n = count
        /\ Len(last'.data) = count
        /\ positionInChunk'[r] = positionInChunk[r] + count
        /\ positionInChunk'[r] = length[r] =>
               /\ last'.err = EOF
               /\ buffer'[r] = NilBuffer
               /\ prefetchedByteTracker' = afterPrefetch - length[r]
        /\ positionInChunk'[r] < length[r] =>
               /\ last'.err = NoErr
               /\ buffer'[r] # NilBuffer
               /\ prefetchedByteTracker' = afterPrefetch

\* C4 as stated: every Read that starts with positionInChunk < length copies
\* min(len(p), length - positionInChunk) bytes, advances the cursor by that
\* count, and returns EOF with the buffer discarded if the cursor reached
\* length, no error with the buffer kept otherwise.
C4_AsStated ==
    [][ \A r \in Readers :
            (last'.op = "Read" /\ last'.r = r /\ positionInChunk[r] < length[r])
                => \A plen \in ReadSizes :
                       ReadStep(r, plen) => ReadCopies(r, plen) ]_vars

\* C4 as amended: the same of every such Read whose Prefetch does not fail (no
\* positioned read fails during the call); a Read whose Prefetch fails returns
\* 0 bytes and the error, and leaves the cursor and the tracker as they were.
C4_ReadCopiesUnlessPrefetchFails ==
    [][ \A r \in Readers :
            (last'.op = "Read" /\ last'.r = r /\ positionInChunk[r] < length[r])
                => IF failedReads' = failedReads
                   THEN \A plen \in ReadSizes :
                            ReadStep(r, plen) => ReadCopies(r, plen)
                   ELSE /\ last'.n = 0
                        /\ last'.err # NoErr
                        /\ last'.data = << >>
                        /\ positionInChunk' = positionInChunk
                        /\ prefetchedByteTracker' = prefetchedByteTracker ]_vars

\* C4 witness: a Read that began with no buffer held, prefetched, copied up to
\* the end of a chunk of more than one byte from a position past its start,
\* returned EOF with the bytes, and left no buffer and the tracker at 0
C4_Witness ==
    \E r \in Readers :
        /\ LastWas("Read", r) /\ last.err = EOF /\ last.didIO
        /\ 0 < last.n /\ last.n < length[r]
        /\ positionInChunk[r] = length[r]
        /\ buffer[r] = NilBuffer
        /\ failedReads = 0
        /\ prefetchedByteTracker = 0

\* C5: a Read called with positionInChunk >= length returns (0, EOF), makes no
\* positioned read, and changes neither a buffer, nor a cursor, nor the tracker.
C5_ReadAtEofDoesNothing ==
    [][ \A r \in Readers :
            (last'.op = "Read" /\ last'.r = r /\ positionInChunk[r] >= length[r])
                => /\ last'.n = 0
                   /\ last'.err = EOF
                   /\ ~last'.didIO
                   /\ UNCHANGED << buffer, positionInChunk, prefetchedByteTracker,
                                   failedReads, file >> ]_vars

\* C5 witness: Read has returned (0, EOF) to a reader at the end of its chunk,
\* once with no buffer held and, as here, with a buffer still held
C5_Witness ==
    \E r \in Readers :
        /\ LastWas("Read", r) /\ last.n = 0 /\ last.err = EOF /\ ~last.didIO
        /\ positionInChunk[r] = length[r]
        /\ buffer[r] # NilBuffer

\* C6: a Prefetch that succeeds on a reader holding no buffer adds length to
\* the tracker and leaves a buffer; a Prefetch on a reader holding a buffer
\* returns success, makes no positioned read and changes nothing.
C6_PrefetchIdempotent ==
    [][ \A r \in Readers :
            (last'.op = "Prefetch" /\ last'.r = r)
                => /\ (buffer[r] = NilBuffer /\ last'.err = NoErr) =>
                          /\ prefetchedByteTracker' = prefetchedByteTracker + length[r]
                          /\ buffer'[r] # NilBuffer
                          /\ last'.didIO
                   /\ buffer[r] # NilBuffer =>
                          /\ last'.err = NoErr
                          /\ ~last'.didIO
                          /\ UNCHANGED << buffer, positionInChunk,
                                          prefetchedByteTracker, failedReads >> ]_vars

\* C6 witness: a Prefetch has returned without a positioned read, on a reader
\* that holds its prefetched bytes, the tracker holding its length once
C6_Witness ==
    \E r \in Readers :
        /\ LastWas("Prefetch", r) /\ last.err = NoErr /\ ~last.didIO
        /\ buffer[r] = FileBytes(offsetInFile[r], length[r])
        /\ Holding = {r}
        /\ prefetchedByteTracker = length[r]

Target(cr, offset, whence) == UnwrappedPosition(cr, offset, whence)

\* the step is a Seek(offset, whence) on reader r, whose fields were cr
IsSeek(r, cr, offset, whence) ==
    LET res == Seek(cr, offset, whence)
    IN  /\ last' = Returned("Seek", r, res.n, res.err, FALSE, << >>, res.wrapped)
        /\ positionInChunk'[r] = res.positionInChunk

\* C8: a Seek, in any of the three modes, to a negative position returns the
\* error and changes neither a cursor, nor a buffer, nor the tracker.
C8_NegativeSeekRejected ==
    [][ \A r \in Readers :
            (last'.op = "Seek" /\ last'.r = r)
                => LET cr == Reader(r) IN
                   \A args \in SeekModeArgs :
                       (Target(cr, args[1], args[2]) < 0 /\ IsSeek(r, cr, args[1], args[2]))
                           => /\ last'.err = ErrSeekBeforeStart
                              /\ UNCHANGED << positionInChunk, buffer,
                                              prefetchedByteTracker, file >> ]_vars

\* C8 witness: Seek has returned the error, with no wrap-around in its
\* arithmetic, to a reader that is still at a position past the start and
\* still holds its buffer
C8_Witness ==
    \E r \in Readers :
        /\ LastWas("Seek", r) /\ last.err = ErrSeekBeforeStart /\ ~last.wrapped
        /\ positionInChunk[r] > 0
        /\ buffer[r] # NilBuffer

\* C9: a Seek, in any of the three modes, whose target as a mathematical
\* integer is >= 0 succeeds, sets positionInChunk to min(target, length) and
\* returns it.
C9_SeekClampsEveryTarget ==
    [][ \A r \in Readers :
            (last'.op = "Seek" /\ last'.r = r)
                => LET cr == Reader(r) IN
                   \A args \in SeekModeArgs :
                       (Target(cr, args[1], args[2]) >= 0 /\ IsSeek(r, cr, args[1], args[2]))
                           => /\ last'.err = NoErr
                              /\ positionInChunk'[r] =
                                     Min(Target(cr, args[1], args[2]), length[r])
                              /\ last'.n = positionInChunk'[r] ]_vars

\* C10: 0 <= positionInChunk <= length, for every reader in every reachable
\* state.
C10_CursorInvariant ==
    \A r \in Readers :
        0 <= positionInChunk[r] /\ positionInChunk[r] <= length[r]

\* C10 witness: a Seek has moved a reader to the end of its chunk, and the
\* other reader is inside its chunk after a Read
C10_Witness ==
    \E r, s \in Readers :
        /\ r # s
        /\ LastWas("Seek", r) /\ last.err = NoErr
        /\ positionInChunk[r] = length[r]
        /\ 0 < positionInChunk[s] /\ positionInChunk[s] < length[s]

---------------------------------------------------------------------------
(* Properties of the slice pool *)

LastPoolCall(op) == poolLast.op = op /\ poolLast.panic = NoPanic

\* the smallest k with 2^k >= size
SmallestK(size) ==
    CHOOSE k \in 0..UintBits :
        /\ Pow2(k) >= size
        /\ \A j \in 0..(k - 1) : Pow2(j) < size

\* the assignments the specification gives as examples: size, slot, capacity
SlotExamples ==
    { << 1, 0, 1 >>, << 2, 1, 2 >>, << 3, 2, 4 >>, << 256, 8, 256 >>,
      << 257, 9, 512 >> }

\* C11: for every size from 1 to the largest uint32, getSlotInfo returns the
\* smallest k with 2^k >= size as the slot index and 2^k as the largest
\* capacity of the slot; so 1 -> (0, 1), 2 -> (1, 2), 3 -> (2, 4),
\* 256 -> (8, 256) and 257 -> (9, 512)
C11_SlotIsCeilLog2 ==
    (poolLast.op = "getSlotInfo" /\ poolLast.size >= 1)
        => /\ poolLast.panic = NoPanic
           /\ poolLast.slotIndex = SmallestK(poolLast.size)
           /\ poolLast.maxCapInSlot = Pow2(poolLast.slotIndex)
           /\ \A ex \in SlotExamples :
                  poolLast.size = ex[1]
                      => /\ poolLast.slotIndex = ex[2]
                         /\ poolLast.maxCapInSlot = ex[3]

\* getSlotInfo has been applied to a size just above a power of two
C11_Witness ==
    /\ LastPoolCall("getSlotInfo")
    /\ poolLast.size = 257
    /\ poolLast.slotIndex = 9
    /\ poolLast.maxCapInSlot = 512

\* C12: whatever calls came before, RentSlice(size) with size within the
\* pool's range returns a slice of length exactly size and of capacity exactly
\* 2^slot(size), which is at least size, whether the slice came from the
\* slot's channel or was newly made
C12_RentedLengthAndCapacity ==
    (poolLast.op = "RentSlice" /\ poolLast.size \in 1..maxSliceLength)
        => /\ poolLast.panic = NoPanic
           /\ poolLast.slice.len = poolLast.size
           /\ poolLast.slice.cap = Pow2(SmallestK(poolLast.size))
           /\ poolLast.slice.cap >= poolLast.size

\* a slice came out of a channel and is shorter than its capacity, while a
\* slice of the same slot is in use at full length
C12_Witness ==
    /\ LastPoolCall("RentSlice")
    /\ poolLast.pooled
    /\ poolLast.slice.len < poolLast.slice.cap
    /\ \E w \in Workers :
           /\ held[w] # NilSlice
           /\ held[w].cap = poolLast.slice.cap
           /\ held[w].len = held[w].cap

\* every worker that has not ended can take its next step now
NoWorkerWaits == \A w \in Workers : wpc[w] # "finished" => ENABLED RunStep(w)

\* a RentSlice that made a new slice found its slot's channel empty
FreshOnlyWhenEmpty ==
    (LastPoolCall("RentSlice") /\ ~poolLast.pooled)
        => poolsBySize[poolLast.slotIndex] = << >>

\* a ReturnSlice that dropped the slice found its slot's channel full
DroppedOnlyWhenFull ==
    (LastPoolCall("ReturnSlice") /\ ~poolLast.pooled)
        => Len(poolsBySize[poolLast.slotIndex]) = SlotCapacity

AllFinished == \A w \in Workers : wpc[w] = "finished"

\* C13: under any interleaving of workers renting sizes within the pool's
\* range and returning what they rented, every call completes and no worker
\* ever waits for another: RentSlice on an empty channel makes a new slice,
\* ReturnSlice on a full channel drops the slice, no state is a deadlock, and
\* every worker eventually ends
C13_NoWaitingNoDeadlock ==
    /\ [](/\ panicked = NoPanic
          /\ NoWorkerWaits
          /\ FreshOnlyWhenEmpty
          /\ DroppedOnlyWhenFull)
    /\ <>AllFinished

\* a call of ReturnSlice with a slice whose slot's channel is full
ReturnToFullSlot ==
    /\ poolLast'.op = "ReturnSlice"
    /\ poolLast'.given.cap \in 1..MaxUint32
    /\ SmallestK(poolLast'.given.cap) \in DOMAIN poolsBySize
    /\ Len(poolsBySize[SmallestK(poolLast'.given.cap)]) = SlotCapacity

\* C14: in every reachable state every slot's channel holds at most its fixed
\* capacity; and a ReturnSlice whose slot's channel is full drops the slice:
\* that channel and every other channel are left as they were
C14_SlotsBounded ==
    /\ [](\A k \in DOMAIN poolsBySize : Len(poolsBySize[k]) <= SlotCapacity)
    /\ [][ ReturnToFullSlot
               => /\ poolLast'.panic = NoPanic
                  /\ ~poolLast'.pooled
                  /\ poolsBySize' = poolsBySize
                  /\ poolLast'.given \notin PooledSlices' ]_vars

\* a worker's slice has just been dropped at a full channel
C14_Witness ==
    /\ LastPoolCall("ReturnSlice")
    /\ ~poolLast.pooled
    /\ Len(poolsBySize[poolLast.slotIndex]) = SlotCapacity
    /\ held[poolLast.w] = NilSlice

\* the slot RentSlice(size) consults
SlotOf(size) == getSlotInfo(size).slotIndex

\* the last call gave back a slice as RentSlice(size) had handed it out
ReturnedAsRented ==
    /\ poolLast.op = "ReturnSlice"
    /\ poolLast.given.len \in 1..maxSliceLength
    /\ poolLast.given.cap = getSlotInfo(poolLast.given.len).maxCapInSlot

\* C15: for every size s from 1 to maxSliceLength, whatever uint32 the pool
\* was constructed with, a slice from RentSlice(s) that is given to
\* ReturnSlice is stored, unless the channel is full, in exactly the channel
\* RentSlice(s) consults (the slot of its capacity is the slot of s); and
\* RentSlice never makes a new slice while its channel is non-empty, so that
\* RentSlice(100), ReturnSlice, RentSlice(100) on a new pool hands back the
\* same backing array, of capacity 128
C15_RoundTrip ==
    /\ [](ReturnedAsRented
            => /\ poolLast.panic = NoPanic
               /\ poolLast.slotIndex = SlotOf(poolLast.given.len)
               /\ \/ /\ poolLast.pooled
                     /\ poolLast.given \in
                            { poolsBySize[SlotOf(poolLast.given.len)][i] :
                                i \in 1..Len(poolsBySize[SlotOf(poolLast.given.len)]) }
                  \/ /\ ~poolLast.pooled
                     /\ Len(poolsBySize[SlotOf(poolLast.given.len)]) = SlotCapacity)
    /\ [](/\ getSlotInfo(100).maxCapInSlot = 128
          /\ getSlotInfo(Uint32(128)).slotIndex = SlotOf(100))
    /\ [][ (/\ poolLast'.op = "RentSlice"
            /\ poolLast'.size \in 1..maxSliceLength
            /\ poolsBySize[SlotOf(poolLast'.size)] # << >>)
               => /\ poolLast'.pooled
                  /\ poolLast'.slice.id = Head(poolsBySize[SlotOf(poolLast'.size)]).id
                  /\ poolLast'.slice.id \notin { b.id : b \in HeldSlices } ]_vars

\* C16: a RentSlice of a size above maxSliceLength is rejected or is served
\* by an allocation outside the pool: it never indexes a slot the pool does
\* not have, never takes its slice from a channel, and the slice it returned
\* is not stored in a channel when it is given back
C16_OversizeBypassesPool ==
    /\ []((poolLast.op = "RentSlice" /\ poolLast.size > maxSliceLength)
            => /\ poolLast.panic # PanicIndexOutOfRange
               /\ poolLast.panic # PanicSliceBounds
               /\ ~poolLast.pooled)
    /\ [][ (/\ poolLast'.op = "ReturnSlice"
            /\ held[poolLast'.w] = poolLast'.given
            /\ poolLast'.given.len > maxSliceLength)
               => /\ ~poolLast'.pooled
                  /\ poolsBySize' = poolsBySize ]_vars

\* C17: ReturnSlice completes, without waiting and without failing, for every
\* slice: of capacity zero, of a capacity that is not a power of two, of a
\* capacity above the largest slot's, and in every state of the channels
C17_ReturnSliceTotal ==
    /\ \A w \in Workers :
           \A cap \in ForeignCaps :
               (panicked = NoPanic /\ wpc[w] # "finished" /\ held[w] = NilSlice)
                   => ENABLED ForeignReturn(w, cap)
    /\ poolLast.op = "ReturnSlice" => poolLast.panic = NoPanic

\* C18: whatever capacities from 1 to the largest slot's ReturnSlice is handed,
\* every slice in the channel of slot k has capacity exactly 2^k, so
\* re-slicing a slice taken from the channel to a size of slot k stays within
\* its capacity
C18_SlotCapacityClass ==
    /\ \A k \in DOMAIN poolsBySize :
           \A i \in 1..Len(poolsBySize[k]) : poolsBySize[k][i].cap = Pow2(k)
    /\ panicked # PanicSliceBounds

---------------------------------------------------------------------------
(* Properties of the chunk reader, continued *)

\* C19: Read never succeeds with data that is not the file's: after any calls
\* on a reader, failed or short positioned reads and retries included, when
\* Read reports n > 0 bytes copied from cursor position q, byte i of what it
\* copied is the file's byte at offsetInFile + q + i, for every i < n
C19_ReadReturnsFileBytes ==
    \A r \in Readers :
        (LastWas("Read", r) /\ last.n > 0)
            => LET q == positionInChunk[r] - last.n IN
               /\ Len(last.data) = last.n
               /\ \A i \in 1..last.n :
                      /\ offsetInFile[r] + q + i \in DOMAIN FileContent
                      /\ last.data[i] = FileContent[offsetInFile[r] + q + i]

---------------------------------------------------------------------------
(* Properties of the slice pool, continued *)

\* C20: when every rented slice is given back at most once for each rental
\* and is not used after that, then under any interleaving no backing array
\* is held by two renters at once, none is held by a renter while a slice of
\* it is in a channel, and none is in the channels twice: a stored slice is
\* handed to at most one RentSlice before it is returned again
C20_NoDoubleTenancy ==
    /\ \A v, w \in Workers :
           (v # w /\ held[v] # NilSlice /\ held[w] # NilSlice)
               => held[v].id # held[w].id
    /\ \A w \in Workers :
           held[w] # NilSlice
               => held[w].id \notin { b.id : b \in PooledSlices }
    /\ \A k, l \in DOMAIN poolsBySize :
           \A i \in 1..Len(poolsBySize[k]) :
               \A j \in 1..Len(poolsBySize[l]) :
                   poolsBySize[k][i].id = poolsBySize[l][j].id
                       => (k = l /\ i = j)

\* a slice came out of a channel for one worker while another worker holds
\* a slice of the same slot and a third slice of that slot is in the channel
C20_Witness ==
    /\ LastPoolCall("RentSlice")
    /\ poolLast.pooled
    /\ held[poolLast.w] = poolLast.slice
    /\ \E w \in Workers \ {poolLast.w} :
           /\ held[w] # NilSlice
           /\ held[w].cap = poolLast.slice.cap
    /\ poolsBySize[poolLast.slotIndex] # << >>

====
